---- MODULE Spec2Model ----
(***************************************************************************)
(* A model of riak_exporter (src/src/riak_exporter/exporter.py): the two   *)
(* flatteners that turn a decoded Riak stats document into Prometheus      *)
(* exposition lines, and the /metrics handler that fetches the two         *)
(* upstream documents and writes the response.                             *)
(*                                                                         *)
(* Two specifications:                                                     *)
(*   SpecFlatten  the flatteners as pure functions over every document of  *)
(*                a bounded size;                                          *)
(*   Spec         the /metrics handler, several requests interleaving on   *)
(*                the IOLoop at the handler's two suspension points.       *)
(***************************************************************************)
EXTENDS Integers, Sequences, FiniteSets, TLC

VARIABLES
    \* ---- the /metrics handler (Spec)
    RAISE_ERROR,           \* MetricsHandler.RAISE_ERROR, class attribute, line 29
    DEFAULT_DATA,          \* MetricsHandler.DEFAULT_DATA, class attribute shared by all handlers, line 27
    pc,                    \* per request: where MetricsHandler.get is suspended
    inflight,              \* per request: the upstream fetches self._client has in flight
    outcome,               \* per request: how each upstream fetch of this request ended
    riak_stats_data,       \* per request: local of get, line 118
    riak_repl_stats_data,  \* per request: local of get, line 119
    response,              \* per request: status and body the scraper receives
    \* ---- the flatteners alone (SpecFlatten)
    fpc,                   \* "input", or which flattener has been applied
    doc,                   \* the decoded document handed to the flattener
    stream                 \* what the generator yielded, and the exception that ended it

vars == <<RAISE_ERROR, DEFAULT_DATA, pc, inflight, outcome, riak_stats_data,
          riak_repl_stats_data, response, fpc, doc, stream>>
scrapeVars == <<RAISE_ERROR, DEFAULT_DATA, pc, inflight, outcome, riak_stats_data,
                riak_repl_stats_data, response>>
flattenVars == <<fpc, doc, stream>>

-----------------------------------------------------------------------------
(***************************************************************************)
(* Decoded JSON values (what tornado.escape.json_decode returns), as a     *)
(* tagged record of one shape:                                             *)
(*   t      "int" | "float" | "bool" | "str" | "null" | "arr" | "obj"      *)
(*   n      int: the integer; float: the value in tenths; bool: 1 or 0     *)
(*   items  obj: the (key, value) pairs in insertion order;                *)
(*          arr: (element, null) for each element, the elements strings;   *)
(*          str: (character, null) for each character                      *)
(***************************************************************************)
JValue(t, n, items) == [t |-> t, n |-> n, items |-> items]
JNull == JValue("null", 0, <<>>)
JInt(n) == JValue("int", n, <<>>)
JFloat(tenths) == JValue("float", tenths, <<>>)
JBool(b) == JValue("bool", IF b THEN 1 ELSE 0, <<>>)
JStr(chars) == JValue("str", 0, [i \in 1..Len(chars) |-> <<chars[i], JNull>>])
JArr(elems) == JValue("arr", 0, [i \in 1..Len(elems) |-> <<elems[i], JNull>>])
JObj(items) == JValue("obj", 0, items)

\* isinstance(value, (int, float, bool)), lines 68, 82, 90, 97, 105
IsNumberNoBool(v) == v.t \in {"int", "float"}
IsNumber(v) == v.t \in {"int", "float", "bool"}

\* "{}".format(float(value)): Python's repr of the float, lines 69-70
Abs(n) == IF n < 0 THEN 0 - n ELSE n
FloatStr(v) ==
    CASE v.t = "int"   -> ToString(v.n) \o ".0"
      [] v.t = "bool"  -> IF v.n = 1 THEN "1.0" ELSE "0.0"
      [] v.t = "float" -> (IF v.n < 0 THEN "-" ELSE "") \o ToString(Abs(v.n) \div 10)
                          \o "." \o ToString(Abs(v.n) % 10)

\* `for x in value`: a dict yields its keys, a list its elements, a str its
\* characters; anything else raises TypeError (not iterable)
Iterable(v) == v.t \in {"obj", "arr", "str"}
IterItems(v) == [i \in 1..Len(v.items) |-> v.items[i][1]]

\* value[k] for a str k: a dict looks the key up (KeyError when absent); a list
\* or a str takes integer indices only, anything else is not subscriptable
\* (TypeError)
HasKey(v, k) == \E i \in 1..Len(v.items) : v.items[i][1] = k
GetItem(v, k) ==
    IF v.t # "obj" THEN [err |-> "TypeError", v |-> JNull]
    ELSE IF ~HasKey(v, k) THEN [err |-> "KeyError", v |-> JNull]
    ELSE [err |-> "", v |-> v.items[CHOOSE i \in 1..Len(v.items) : v.items[i][1] = k][2]]

-----------------------------------------------------------------------------
(***************************************************************************)
(* The flatteners.  A generator is modelled by the lines it yields before  *)
(* it ends, and the exception that ended it ("" when it returned).         *)
(***************************************************************************)
Stream(out, err) == [out |-> out, err |-> err]

\* lines 67-71, the loop body from item i on
RECURSIVE StatsItems(_, _)
StatsItems(items, i) ==
    IF i > Len(items) THEN <<>>
    ELSE LET key == items[i][1]
             value == items[i][2]
         IN (IF IsNumber(value)
             THEN <<"riak_" \o key \o " " \o FloatStr(value)>>
             ELSE <<>>) \o StatsItems(items, i + 1)

parse_riak_stats_data(riak_stats_data_) ==
    IF riak_stats_data_.t # "obj" THEN Stream(<<>>, "AttributeError")
    ELSE Stream(StatsItems(riak_stats_data_.items, 1), "")

\* lines 89-93: the fields of one cluster of fullsync_coordinator
RECURSIVE FullsyncFields(_, _, _)
FullsyncFields(fields, cluster, i) ==
    IF i > Len(fields) THEN <<>>
    ELSE LET ckey == fields[i][1]
             cvalue == fields[i][2]
         IN (IF IsNumber(cvalue)
             THEN <<"riak_repl_fullsync_coordinator_" \o ckey \o "{cluster=\""
                    \o cluster \o "\"} " \o FloatStr(cvalue)>>
             ELSE <<>>) \o FullsyncFields(fields, cluster, i + 1)

\* lines 88-93: `for cluster in value`, from the i-th cluster on
RECURSIVE FullsyncClusters(_, _, _)
FullsyncClusters(value, i, out) ==
    IF i > Len(value.items) THEN Stream(out, "")
    ELSE LET cluster == IterItems(value)[i]
             got == GetItem(value, cluster)
         IN IF got.err # "" THEN Stream(out, got.err)
            ELSE IF got.v.t # "obj" THEN Stream(out, "AttributeError")
            ELSE FullsyncClusters(value, i + 1,
                                  out \o FullsyncFields(got.v.items, cluster, 1))

\* lines 87-93
FullsyncBranch(value) ==
    IF ~Iterable(value) THEN Stream(<<>>, "TypeError")
    ELSE FullsyncClusters(value, 1, <<>>)

\* lines 104-108: the fields read for one cluster under consumers; the name is
\* formatted from rkey (line 107)
RECURSIVE ConsumerFields(_, _, _, _)
ConsumerFields(fields, rkey, cluster, i) ==
    IF i > Len(fields) THEN <<>>
    ELSE LET cvalue == fields[i][2]
         IN (IF IsNumber(cvalue)
             THEN <<"riak_repl_realtime_queue_stats_consumers_" \o rkey \o "{cluster=\""
                    \o cluster \o "\"} " \o FloatStr(cvalue)>>
             ELSE <<>>) \o ConsumerFields(fields, rkey, cluster, i + 1)

\* lines 103-108: `for cluster in rvalue`, from the i-th cluster on; the fields
\* are read from value[cluster], value being the realtime_queue_stats mapping
RECURSIVE ConsumerClusters(_, _, _, _, _)
ConsumerClusters(value, rkey, rvalue, i, out) ==
    IF i > Len(rvalue.items) THEN Stream(out, "")
    ELSE LET cluster == IterItems(rvalue)[i]
             got == GetItem(value, cluster)
         IN IF got.err # "" THEN Stream(out, got.err)
            ELSE IF got.v.t # "obj" THEN Stream(out, "AttributeError")
            ELSE ConsumerClusters(value, rkey, rvalue, i + 1,
                                  out \o ConsumerFields(got.v.items, rkey, cluster, 1))

\* lines 102-108
ConsumersBranch(value, rkey, rvalue) ==
    IF ~Iterable(rvalue) THEN Stream(<<>>, "TypeError")
    ELSE ConsumerClusters(value, rkey, rvalue, 1, <<>>)

\* lines 96-108: `for rkey, rvalue in value.items()`, from item i on
RECURSIVE RealtimeItems(_, _, _)
RealtimeItems(value, i, out) ==
    IF i > Len(value.items) THEN Stream(out, "")
    ELSE LET rkey == value.items[i][1]
             rvalue == value.items[i][2]
             out1 == out \o (IF IsNumber(rvalue)
                             THEN <<"riak_repl_realtime_queue_stats_" \o rkey \o " "
                                    \o FloatStr(rvalue)>>
                             ELSE <<>>)
             cons == IF rkey = "consumers" THEN ConsumersBranch(value, rkey, rvalue)
                     ELSE Stream(<<>>, "")
         IN IF cons.err # "" THEN Stream(out1 \o cons.out, cons.err)
            ELSE RealtimeItems(value, i + 1, out1 \o cons.out)

\* lines 95-108
RealtimeBranch(value) ==
    IF value.t # "obj" THEN Stream(<<>>, "AttributeError")
    ELSE RealtimeItems(value, 1, <<>>)

\* lines 81-108: `for key, value in riak_repl_stats_data.items()`, from item i on
RECURSIVE ReplItems(_, _, _)
ReplItems(items, i, out) ==
    IF i > Len(items) THEN Stream(out, "")
    ELSE LET key == items[i][1]
             value == items[i][2]
             out1 == out \o (IF IsNumber(value)
                             THEN <<"riak_repl_" \o key \o " " \o FloatStr(value)>>
                             ELSE <<>>)
             full == IF key = "fullsync_coordinator" THEN FullsyncBranch(value)
                     ELSE Stream(<<>>, "")
             out2 == out1 \o full.out
             real == IF key = "realtime_queue_stats" THEN RealtimeBranch(value)
                     ELSE Stream(<<>>, "")
         IN IF full.err # "" THEN Stream(out2, full.err)
            ELSE IF real.err # "" THEN Stream(out2 \o real.out, real.err)
            ELSE ReplItems(items, i + 1, out2 \o real.out)

parse_riak_repl_stats_data(riak_repl_stats_data_) ==
    IF riak_repl_stats_data_.t # "obj" THEN Stream(<<>>, "AttributeError")
    ELSE ReplItems(riak_repl_stats_data_.items, 1, <<>>)

-----------------------------------------------------------------------------
(***************************************************************************)
(* The documents the flatteners are applied to: every JSON object built    *)
(* from the vocabulary below that holds at most MaxEntries key/value       *)
(* pairs, counted over all its levels.                                     *)
(***************************************************************************)
MaxEntries == 4
MaxKeys == 2

TopKeys == {"vnode_gets", "fullsync_coordinator", "realtime_queue_stats"}
Clusters == {"A", "B"}
FieldKeys == {"queue_length", "pending"}
RealtimeKeys == {"consumers", "A"}

\* the values that are not mappings, by the level they stand at
ScalarsAt(level) ==
    CASE level = "doc"      -> {JInt(42), JNull, JArr(<<"a", "b">>)}
      [] level = "clusters" -> {JInt(3)}
      [] level = "realtime" -> {JInt(3), JStr(<<"u">>)}
      [] OTHER              -> {JInt(3), JBool(TRUE), JStr(<<"u">>)}

KeysAt(level) ==
    CASE level = "doc"      -> TopKeys
      [] level = "clusters" -> Clusters
      [] level = "realtime" -> RealtimeKeys
      [] level = "fields"   -> FieldKeys
      [] OTHER              -> {}

\* the level of the mapping found under key k of a mapping at `level`
ChildLevel(level, k) ==
    CASE level = "doc" /\ k = "fullsync_coordinator"  -> "clusters"
      [] level = "doc" /\ k = "realtime_queue_stats"  -> "realtime"
      [] level = "realtime" /\ k = "consumers"        -> "clusters"
      [] level = "fields"                             -> "none"
      [] OTHER                                        -> "fields"

KeysOf(items) == {items[i][1] : i \in 1..Len(items)}

\* the item sequences of a mapping at `level` holding exactly s pairs in all
RECURSIVE ItemsOfSize(_, _)
ItemsOfSize(level, s) ==
    IF s = 0 THEN {<<>>}
    ELSE UNION { UNION { {Append(rest, <<k, v>>) :
                             v \in IF vs = 0
                                   THEN ScalarsAt(level) \cup {JObj(<<>>)}
                                   ELSE {JObj(it) : it \in ItemsOfSize(ChildLevel(level, k), vs)}}
                         : k \in KeysAt(level) \ KeysOf(rest) }
                 : <<vs, rest>> \in UNION { {<<n, r>> : r \in ItemsOfSize(level, s - 1 - n)}
                                            : n \in 0..(s - 1) } }

NestedDocs(entries) ==
    {JObj(items) : items \in UNION {ItemsOfSize("doc", s) : s \in 0..entries}}

(***************************************************************************)
(* And every flat document of at most MaxKeys keys over every kind of      *)
(* value: the shape of the primary /stats document.                        *)
(***************************************************************************)
FlatKeys == {"vnode_gets", "ring_members", "fullsync_coordinator"}
FlatValues == {JInt(42), JInt(-7), JFloat(25), JBool(TRUE), JBool(FALSE),
               JStr(<<"u", "p">>), JNull, JArr(<<"a", "b">>), JObj(<<>>)}

RECURSIVE FlatItems(_)
FlatItems(n) ==
    IF n = 0 THEN {<<>>}
    ELSE LET shorter == FlatItems(n - 1)
         IN shorter \cup
            UNION { {Append(rest, <<k, v>>) : v \in FlatValues}
                    : <<rest, k>> \in {<<r, kk>> \in shorter \X FlatKeys :
                                         Len(r) = n - 1 /\ kk \notin KeysOf(r)} }

FlatDocs(keys) == {JObj(items) : items \in FlatItems(keys)}

FlattenDocs(entries, keys) == NestedDocs(entries) \cup FlatDocs(keys)

\* Python's {} and the value every scrape variable holds before it is assigned
EmptyDoc == JObj(<<>>)
NoStream == Stream(<<>>, "")

FlattenInit ==
    /\ fpc = "input"
    /\ doc \in FlattenDocs(MaxEntries, MaxKeys)
    /\ stream = NoStream

\* parse_riak_stats_data(doc), the generator run to its end
FlattenStats ==
    /\ fpc = "input"
    /\ fpc' = "stats"
    /\ stream' = parse_riak_stats_data(doc)
    /\ UNCHANGED <<doc, scrapeVars>>

\* parse_riak_repl_stats_data(doc), the generator run to its end
FlattenRepl ==
    /\ fpc = "input"
    /\ fpc' = "repl"
    /\ stream' = parse_riak_repl_stats_data(doc)
    /\ UNCHANGED <<doc, scrapeVars>>

FlattenNext == FlattenStats \/ FlattenRepl

-----------------------------------------------------------------------------
(***************************************************************************)
(* The /metrics handler.  Tornado builds one MetricsHandler per request    *)
(* and runs its get coroutine on the IOLoop; get suspends at the two       *)
(* `yield self.fetch_riak_stats(...)` (lines 118, 119), each of which      *)
(* suspends at `yield self._client.fetch(...)` (line 49), and other        *)
(* requests run in between.                                                *)
(***************************************************************************)
NumRequests == 2
Requests == 1..NumRequests

\* the upstream documents of the scenarios: a primary document with a number
\* and an array, a replication document with one fullsync cluster, a
\* replication document with realtime consumers, and {}
StatsDoc == JObj(<< <<"vnode_gets", JInt(42)>>, <<"ring_members", JArr(<<"a", "b">>)>> >>)
FullsyncDoc ==
    JObj(<< <<"fullsync_coordinator",
              JObj(<< <<"clusterA", JObj(<< <<"queue_length", JInt(3)>> >>)>> >>)>> >>)
ConsumersDoc ==
    JObj(<< <<"realtime_queue_stats",
              JObj(<< <<"bytes", JInt(5)>>,
                      <<"consumers",
                        JObj(<< <<"clusterA", JObj(<< <<"pending", JInt(2)>> >>)>> >>)>> >>)>> >>)
UpstreamDocs == {StatsDoc, FullsyncDoc, ConsumersDoc, EmptyDoc}

\* how self._client.fetch followed by json_decode can end, lines 49-50: with a
\* decoded document, or with an exception (HTTPError for a timeout or a
\* non-success status from line 49, ValueError from line 50)
FetchFailures == {"timeout", "http_error", "decode_error"}
NoResult == [kind |-> "none", doc |-> EmptyDoc]
FetchResults == {[kind |-> "ok", doc |-> d] : d \in UpstreamDocs}
                \cup {[kind |-> f, doc |-> EmptyDoc] : f \in FetchFailures}

Sources == {"riak_stats", "riak_repl_stats"}

\* lines 47-56 run with fetch result res: whether HTTPError(500) is raised, the
\* dict returned, and the class attribute DEFAULT_DATA afterwards.
\* Variants: one that swallows the failure whatever RAISE_ERROR is, and one
\* that fills the shared default in place (data.update(decoded)).
fetch_riak_stats_swallow(default, res, raise_error) ==
    [raised |-> FALSE,
     data |-> IF res.kind = "ok" THEN res.doc ELSE default,
     default |-> default]
fetch_riak_stats_update(default, res, raise_error) ==
    [raised |-> res.kind # "ok" /\ raise_error,
     data |-> IF res.kind = "ok" THEN res.doc ELSE default,
     default |-> IF res.kind = "ok" THEN res.doc ELSE default]
fetch_riak_stats(default, res, raise_error) ==
    IF res.kind = "ok"
    THEN [raised |-> FALSE, data |-> res.doc, default |-> default]
    ELSE IF raise_error
    THEN [raised |-> TRUE, data |-> default, default |-> default]
    ELSE [raised |-> FALSE, data |-> default, default |-> default]

\* sep.join(lines), lines 120-121
RECURSIVE Join(_, _)
Join(lines, sep) ==
    IF Len(lines) = 0 THEN ""
    ELSE IF Len(lines) = 1 THEN lines[1]
    ELSE lines[1] \o sep \o Join(Tail(lines), sep)

\* line 122.  Variant: the trailing newline forgotten.
prometheus_unterminated(prometheus_stats, prometheus_repl_stats) ==
    prometheus_stats \o "\n" \o prometheus_repl_stats
prometheus(prometheus_stats, prometheus_repl_stats) ==
    prometheus_stats \o "\n" \o prometheus_repl_stats \o "\n"

\* What the scraper receives when an exception leaves get: the exception is
\* not a tornado.web.HTTPError, so Tornado answers 500 with its error page
\* and drops whatever the handler had buffered.
ErrorBody == "<html><title>500: Internal Server Error</title><body>500: Internal Server Error</body></html>"
Error500 == [status |-> 500, body |-> ErrorBody]
NoResponse == [status |-> 0, body |-> ""]

\* lines 120-124: both generators are consumed by join before anything is
\* written.  Variant: each line is written and flushed as it is yielded.
get_write_streaming(stats_data, repl_stats_data) ==
    LET s1 == parse_riak_stats_data(stats_data)
        s2 == parse_riak_repl_stats_data(repl_stats_data)
    IN [status |-> 200,
        body |-> prometheus(Join(s1.out, "\n"),
                            IF s1.err # "" THEN "" ELSE Join(s2.out, "\n"))]
get_write(stats_data, repl_stats_data) ==
    LET s1 == parse_riak_stats_data(stats_data)
        s2 == parse_riak_repl_stats_data(repl_stats_data)
    IN IF s1.err # "" \/ s2.err # "" THEN Error500
       ELSE [status |-> 200,
             body |-> prometheus(Join(s1.out, "\n"), Join(s2.out, "\n"))]

Init ==
    /\ RAISE_ERROR \in BOOLEAN
    /\ DEFAULT_DATA = EmptyDoc
    /\ pc = [h \in Requests |-> "idle"]
    /\ inflight = [h \in Requests |-> {}]
    /\ outcome = [h \in Requests |-> [s \in Sources |-> NoResult]]
    /\ riak_stats_data = [h \in Requests |-> EmptyDoc]
    /\ riak_repl_stats_data = [h \in Requests |-> EmptyDoc]
    /\ response = [h \in Requests |-> NoResponse]
    /\ fpc = "input"
    /\ doc = EmptyDoc
    /\ stream = NoStream

\* A scrape arrives: get runs to line 118 and into fetch_riak_stats up to the
\* yield of line 49, with the primary fetch issued.
GetBegin(h) ==
    /\ pc[h] = "idle"
    /\ pc' = [pc EXCEPT ![h] = "await_stats"]
    /\ inflight' = [inflight EXCEPT ![h] = {"riak_stats"}]
    /\ UNCHANGED <<RAISE_ERROR, DEFAULT_DATA, outcome, riak_stats_data,
                   riak_repl_stats_data, response, flattenVars>>

\* The primary fetch ends with res: lines 49-56, then either the exception
\* leaves get, or line 118 assigns and line 119 issues the replication fetch.
StatsFetchEnds(h, res) ==
    /\ pc[h] = "await_stats"
    /\ "riak_stats" \in inflight[h]
    /\ LET r == fetch_riak_stats(DEFAULT_DATA, res, RAISE_ERROR)
       IN /\ DEFAULT_DATA' = r.default
          /\ outcome' = [outcome EXCEPT ![h]["riak_stats"] = res]
          /\ IF r.raised
             THEN /\ pc' = [pc EXCEPT ![h] = "done"]
                  /\ inflight' = [inflight EXCEPT ![h] = {}]
                  /\ response' = [response EXCEPT ![h] = Error500]
                  /\ UNCHANGED riak_stats_data
             ELSE /\ pc' = [pc EXCEPT ![h] = "await_repl"]
                  /\ inflight' = [inflight EXCEPT ![h] = {"riak_repl_stats"}]
                  /\ riak_stats_data' = [riak_stats_data EXCEPT ![h] = r.data]
                  /\ UNCHANGED response
    /\ UNCHANGED <<RAISE_ERROR, riak_repl_stats_data, flattenVars>>

\* The replication fetch ends with res: lines 49-56, then either the exception
\* leaves get, or lines 119-124 flatten both documents and write the body.
ReplFetchEnds(h, res) ==
    /\ pc[h] = "await_repl"
    /\ "riak_repl_stats" \in inflight[h]
    /\ LET r == fetch_riak_stats(DEFAULT_DATA, res, RAISE_ERROR)
       IN /\ DEFAULT_DATA' = r.default
          /\ outcome' = [outcome EXCEPT ![h]["riak_repl_stats"] = res]
          /\ pc' = [pc EXCEPT ![h] = "done"]
          /\ inflight' = [inflight EXCEPT ![h] = {}]
          /\ IF r.raised
             THEN /\ response' = [response EXCEPT ![h] = Error500]
                  /\ UNCHANGED riak_repl_stats_data
             ELSE /\ riak_repl_stats_data' = [riak_repl_stats_data EXCEPT ![h] = r.data]
                  /\ response' = [response EXCEPT ![h] = get_write(riak_stats_data[h], r.data)]
    /\ UNCHANGED <<RAISE_ERROR, riak_stats_data, flattenVars>>

\* The response has been sent; the handler and its locals are dropped, and the
\* slot stands for the next request.
RequestFinished(h) ==
    /\ pc[h] = "done"
    /\ pc' = [pc EXCEPT ![h] = "idle"]
    /\ outcome' = [outcome EXCEPT ![h] = [s \in Sources |-> NoResult]]
    /\ riak_stats_data' = [riak_stats_data EXCEPT ![h] = EmptyDoc]
    /\ riak_repl_stats_data' = [riak_repl_stats_data EXCEPT ![h] = EmptyDoc]
    /\ response' = [response EXCEPT ![h] = NoResponse]
    /\ UNCHANGED <<RAISE_ERROR, DEFAULT_DATA, inflight, flattenVars>>

Next ==
    \E h \in Requests :
        \/ GetBegin(h)
        \/ \E res \in FetchResults : StatsFetchEnds(h, res)
        \/ \E res \in FetchResults : ReplFetchEnds(h, res)
        \/ RequestFinished(h)

Spec == Init /\ [][Next]_vars

\* the flatteners alone, on every document of FlattenDocs(MaxEntries, MaxKeys)
InitFlatten ==
    /\ FlattenInit
    /\ RAISE_ERROR = TRUE
    /\ DEFAULT_DATA = EmptyDoc
    /\ pc = [h \in Requests |-> "idle"]
    /\ inflight = [h \in Requests |-> {}]
    /\ outcome = [h \in Requests |-> [s \in Sources |-> NoResult]]
    /\ riak_stats_data = [h \in Requests |-> EmptyDoc]
    /\ riak_repl_stats_data = [h \in Requests |-> EmptyDoc]
    /\ response = [h \in Requests |-> NoResponse]

SpecFlatten == InitFlatten /\ [][FlattenNext]_vars

-----------------------------------------------------------------------------
(***************************************************************************)
(* Reading a response body back: its lines, and its metric lines.          *)
(***************************************************************************)
NewlinesIn(s) == {i \in 1..Len(s) : SubSeq(s, i, i) = "\n"}
Lines(s) ==
    LET nl == NewlinesIn(s)
        n == Cardinality(nl)
        \* the position of the k-th newline; 0 and Len(s) + 1 bracket the text
        at(k) == IF k = 0 THEN 0
                 ELSE IF k = n + 1 THEN Len(s) + 1
                 ELSE CHOOSE p \in nl : Cardinality({q \in nl : q < p}) = k - 1
    IN [k \in 1..(n + 1) |-> SubSeq(s, at(k - 1) + 1, at(k) - 1)]

IsMetricLine(line) == Len(line) >= 5 /\ SubSeq(line, 1, 5) = "riak_"
MetricLines(body) == SelectSeq(Lines(body), IsMetricLine)

TrailingNewlines(s) ==
    LET text == {i \in 1..Len(s) : SubSeq(s, i, i) # "\n"}
    IN IF text = {} THEN Len(s)
       ELSE Len(s) - (CHOOSE i \in text : \A j \in text : j <= i)

Range(seq) == {seq[i] : i \in 1..Len(seq)}
Failed(res) == res.kind \in FetchFailures

-----------------------------------------------------------------------------
(***************************************************************************)
(* The handler's claims, under Spec.                                       *)
(***************************************************************************)

\* C1: with RAISE_ERROR set, a scrape in which the primary or the replication
\* fetch failed is answered 500 and its body holds no metric line, whatever
\* the other fetch returned.
C1_FailurePropagates ==
    \A h \in Requests :
        (RAISE_ERROR /\ pc[h] = "done"
            /\ \E s \in Sources : Failed(outcome[h][s]))
        => /\ response[h].status = 500
           /\ MetricLines(response[h].body) = <<>>

\* a scrape whose primary fetch returned a document with a metric and whose
\* replication fetch then timed out, answered 500
C1_Witness ==
    \E h \in Requests :
        /\ RAISE_ERROR /\ pc[h] = "done"
        /\ outcome[h]["riak_stats"] = [kind |-> "ok", doc |-> StatsDoc]
        /\ outcome[h]["riak_repl_stats"].kind = "timeout"
        /\ response[h].status = 500

\* the lines a source contributes to a complete body: those of its document
\* when the fetch succeeded, none when it failed
SourceLines(res, parsed) == IF res.kind = "ok" THEN parsed.out ELSE <<>>

\* C2: with RAISE_ERROR cleared, every finished scrape is answered 200, a
\* failed source contributes no line and every line of a successfully fetched
\* source is in the body.
C2_SuppressedFailureGives200 ==
    \A h \in Requests :
        (~RAISE_ERROR /\ pc[h] = "done")
        => /\ response[h].status = 200
           /\ MetricLines(response[h].body)
                = SourceLines(outcome[h]["riak_stats"],
                              parse_riak_stats_data(outcome[h]["riak_stats"].doc))
                  \o SourceLines(outcome[h]["riak_repl_stats"],
                                 parse_riak_repl_stats_data(outcome[h]["riak_repl_stats"].doc))

\* Lemma beside C2: the same answer for the scrapes in which the flattening of
\* neither document raises.
SuppressedFailureWhenFlattened ==
    \A h \in Requests :
        (~RAISE_ERROR /\ pc[h] = "done"
            /\ parse_riak_stats_data(riak_stats_data[h]).err = ""
            /\ parse_riak_repl_stats_data(riak_repl_stats_data[h]).err = "")
        => /\ response[h].status = 200
           /\ MetricLines(response[h].body)
                = SourceLines(outcome[h]["riak_stats"],
                              parse_riak_stats_data(outcome[h]["riak_stats"].doc))
                  \o SourceLines(outcome[h]["riak_repl_stats"],
                                 parse_riak_repl_stats_data(outcome[h]["riak_repl_stats"].doc))

Issued(h, s) == s \in inflight[h] \/ outcome[h][s].kind # "none"

\* C3: the replication fetch is issued without waiting for the primary fetch:
\* in the step in which the primary fetch of a scrape ends, whatever its
\* outcome, the replication fetch of that scrape has been issued already.
C3_ReplIssuedBeforeStatsEnds ==
    [][\A h \in Requests :
          ("riak_stats" \in inflight[h] /\ "riak_stats" \notin inflight'[h])
          => Issued(h, "riak_repl_stats")]_vars

\* Lemma beside C3: the two fetches of a scrape are never in flight together,
\* get yielding on the first before it calls the second (lines 118-119).
FetchesNeverOverlap == \A h \in Requests : Cardinality(inflight[h]) <= 1

\* C8: every 200 body ends with exactly one newline.
C8_ExactlyOneTrailingNewline ==
    \A h \in Requests :
        response[h].status = 200 => TrailingNewlines(response[h].body) = 1

\* C8 as amended: every 200 body ends with a newline; it ends with exactly one
\* when the replication document yields at least one metric, and with two when
\* it yields none.
C8_TrailingNewlines ==
    \A h \in Requests :
        response[h].status = 200
        => TrailingNewlines(response[h].body)
             = IF parse_riak_repl_stats_data(riak_repl_stats_data[h]).out = <<>>
               THEN 2 ELSE 1

\* a 200 answer to a scrape whose replication fetch failed: the primary line,
\* then two newlines
C8_Witness ==
    \E h \in Requests :
        /\ response[h].status = 200
        /\ Failed(outcome[h]["riak_repl_stats"])
        /\ response[h].body = "riak_vnode_gets 42.0\n\n"

\* the answer a scrape's own two fetch results determine, given RAISE_ERROR
\* and an empty default
OwnResponse(results, raise_error) ==
    IF raise_error /\ Failed(results["riak_stats"]) THEN Error500
    ELSE IF raise_error /\ Failed(results["riak_repl_stats"]) THEN Error500
    ELSE get_write(results["riak_stats"].doc, results["riak_repl_stats"].doc)

\* C9: nothing is carried from one request to another: DEFAULT_DATA is empty
\* in every state, the document a request holds is the one its own fetch
\* returned (or {} after a suppressed failure), and the answer of a finished
\* request is the one its own two fetch results determine.
C9_NoStateBetweenRequests ==
    /\ DEFAULT_DATA = EmptyDoc
    /\ \A h \in Requests :
          /\ pc[h] = "await_repl"
             => riak_stats_data[h] = outcome[h]["riak_stats"].doc
          /\ pc[h] = "done" => response[h] = OwnResponse(outcome[h], RAISE_ERROR)

\* a request answered from a suppressed failure while the other request holds a
\* fetched document with metrics
C9_Witness ==
    \E h, g \in Requests :
        /\ h # g /\ ~RAISE_ERROR
        /\ pc[h] = "done" /\ Failed(outcome[h]["riak_stats"])
        /\ response[h].status = 200
        /\ pc[g] = "await_repl" /\ riak_stats_data[g] = StatsDoc

\* C10: a response is written only once both fetches are over, and it holds
\* either every line of both documents or no metric line: never the lines a
\* flattener yielded before it raised.
C10_NeverTruncated ==
    \A h \in Requests :
        LET s1 == parse_riak_stats_data(riak_stats_data[h])
            s2 == parse_riak_repl_stats_data(riak_repl_stats_data[h])
        IN /\ response[h].status # 0 => (pc[h] = "done" /\ inflight[h] = {})
           /\ \/ MetricLines(response[h].body) = <<>>
              \/ /\ s1.err = "" /\ s2.err = ""
                 /\ MetricLines(response[h].body) = s1.out \o s2.out

\* a scrape whose replication document made the flattener raise after it had
\* yielded a line, answered 500
C10_Witness ==
    \E h \in Requests :
        LET s2 == parse_riak_repl_stats_data(riak_repl_stats_data[h])
        IN /\ pc[h] = "done"
           /\ outcome[h]["riak_repl_stats"] = [kind |-> "ok", doc |-> ConsumersDoc]
           /\ s2.err # "" /\ s2.out # <<>>
           /\ response[h] = Error500

-----------------------------------------------------------------------------
(***************************************************************************)
(* The flatteners' claims, under SpecFlatten.  The expected lines are      *)
(* written from the documents' shape, without the flatteners' operators.   *)
(***************************************************************************)
NumberKinds == {"int", "float", "bool"}

\* the decimal text of a number as a double: 42 -> 42.0, true -> 1.0, 2.5 -> 2.5
Double(v) ==
    IF v.t = "bool" THEN (IF v.n = 1 THEN "1.0" ELSE "0.0")
    ELSE IF v.t = "int" THEN ToString(v.n) \o ".0"
    ELSE IF v.n >= 0 THEN ToString(v.n \div 10) \o "." \o ToString(v.n % 10)
    ELSE "-" \o ToString((0 - v.n) \div 10) \o "." \o ToString((0 - v.n) % 10)

Value(d, k) == d.items[CHOOSE i \in 1..Len(d.items) : d.items[i][1] = k][2]
IsMapping(v) == v.t = "obj"
NumberItem(item) == item[2].t \in NumberKinds

\* the index in d.items of the j-th item holding a number
NthNumber(d, j) ==
    CHOOSE i \in 1..Len(d.items) :
        /\ NumberItem(d.items[i])
        /\ Cardinality({m \in 1..i : NumberItem(d.items[m])}) = j

\* C4: parse_riak_stats_data yields, in key order, `riak_<key> <double>` for
\* each top-level key holding a number or a boolean, and nothing for any other
\* key, fullsync_coordinator and realtime_queue_stats included; it never raises.
C4_StatsReference ==
    fpc = "stats"
    => LET count == Cardinality({i \in 1..Len(doc.items) : NumberItem(doc.items[i])})
       IN /\ stream.err = ""
          /\ Len(stream.out) = count
          /\ \A j \in 1..count :
                LET item == doc.items[NthNumber(doc, j)]
                IN stream.out[j] = "riak_" \o item[1] \o " " \o Double(item[2])

\* a boolean and an array under the special key: one line for the boolean
C4_Witness ==
    /\ fpc = "stats"
    /\ doc = JObj(<< <<"fullsync_coordinator", JArr(<<"a", "b">>)>>,
                     <<"vnode_gets", JBool(TRUE)>> >>)
    /\ stream.out = <<"riak_vnode_gets 1.0">>

\* the realtime_queue_stats value is a mapping with a consumers key that maps
\* cluster identifiers to mappings
ConsumersShape(d) ==
    /\ HasKey(d, "realtime_queue_stats")
    /\ IsMapping(Value(d, "realtime_queue_stats"))
    /\ HasKey(Value(d, "realtime_queue_stats"), "consumers")
    /\ LET consumers == Value(Value(d, "realtime_queue_stats"), "consumers")
       IN /\ IsMapping(consumers)
          /\ \A i \in 1..Len(consumers.items) : IsMapping(consumers.items[i][2])

\* C5: for each cluster C under consumers and each number or boolean field F
\* of consumers[C], the stream holds
\* riak_repl_realtime_queue_stats_consumers_<F>{cluster="<C>"} <double>.
C5_ConsumersReference ==
    (fpc = "repl" /\ ConsumersShape(doc))
    => LET consumers == Value(Value(doc, "realtime_queue_stats"), "consumers")
       IN \A i \in 1..Len(consumers.items) :
             LET fields == consumers.items[i][2].items
             IN \A f \in 1..Len(fields) :
                   NumberItem(fields[f])
                   => ("riak_repl_realtime_queue_stats_consumers_" \o fields[f][1]
                       \o "{cluster=\"" \o consumers.items[i][1] \o "\"} "
                       \o Double(fields[f][2])) \in Range(stream.out)

\* the fullsync_coordinator value maps cluster identifiers to mappings
FullsyncShape(d) ==
    /\ HasKey(d, "fullsync_coordinator")
    /\ LET full == Value(d, "fullsync_coordinator")
       IN /\ IsMapping(full)
          /\ \A i \in 1..Len(full.items) : IsMapping(full.items[i][2])

\* the (cluster, field) pairs of a cluster mapping whose field holds a number,
\* in cluster order then field order, as positions <<i, f>>
NumberFields(full) ==
    {<<i, f>> \in (1..Len(full.items)) \X (1..Cardinality(FieldKeys)) :
        /\ f <= Len(full.items[i][2].items)
        /\ NumberItem(full.items[i][2].items[f])}
Before(p, q) == p[1] < q[1] \/ (p[1] = q[1] /\ p[2] < q[2])

IsFullsyncLine(line) ==
    Len(line) >= 31 /\ SubSeq(line, 1, 31) = "riak_repl_fullsync_coordinator_"

\* C6: the fullsync lines of the stream are exactly one
\* riak_repl_fullsync_coordinator_<field>{cluster="<C>"} <double> for each
\* (cluster, field) pair holding a number or a boolean, in cluster order then
\* field order.
C6_FullsyncReference ==
    (fpc = "repl" /\ FullsyncShape(doc))
    => LET full == Value(doc, "fullsync_coordinator")
           pairs == NumberFields(full)
           lines == SelectSeq(stream.out, IsFullsyncLine)
       IN /\ Len(lines) = Cardinality(pairs)
          /\ \A p \in pairs :
                LET j == Cardinality({q \in pairs : Before(q, p)}) + 1
                    field == full.items[p[1]][2].items[p[2]]
                IN lines[j] = "riak_repl_fullsync_coordinator_" \o field[1]
                              \o "{cluster=\"" \o full.items[p[1]][1] \o "\"} "
                              \o Double(field[2])

\* Lemma beside C6: the same lines for the documents on which the generator
\* runs to its end (lines 87-93 taken alone).
FullsyncReferenceWhenCompleted ==
    (fpc = "repl" /\ FullsyncShape(doc) /\ stream.err = "")
    => LET full == Value(doc, "fullsync_coordinator")
           pairs == NumberFields(full)
           lines == SelectSeq(stream.out, IsFullsyncLine)
       IN /\ Len(lines) = Cardinality(pairs)
          /\ \A p \in pairs :
                LET j == Cardinality({q \in pairs : Before(q, p)}) + 1
                    field == full.items[p[1]][2].items[p[2]]
                IN lines[j] = "riak_repl_fullsync_coordinator_" \o field[1]
                              \o "{cluster=\"" \o full.items[p[1]][1] \o "\"} "
                              \o Double(field[2])

\* C7: neither flattener raises, whatever the document.
C7_FlattenNeverRaises == fpc # "input" => stream.err = ""

\* Lemma beside C7: the primary flattener, which reads top-level values only,
\* never raises.
StatsFlattenNeverRaises == fpc = "stats" => stream.err = ""

====
